---------------------------- MODULE Spec2Model ----------------------------
(***************************************************************************)
(* A model of the header codec, the packet parser builder and the common   *)
(* packet fields of sequoia-openpgp 0.9.0.                                 *)
(*                                                                         *)
(*   SpecBodyLength : BodyLength::parse_new_format / parse_old_format      *)
(*                    driven over a memory reader.                         *)
(*   SpecBuilder    : a PacketParserBuilder is configured and finalized.   *)
(*   SpecCommon     : updates of a packet's Common fields.                 *)
(*   SpecIter       : descendants().paths() is driven over a packet tree.  *)
(*   SpecParser     : the streaming parser walks a nested message.         *)
(***************************************************************************)
EXTENDS Integers, Sequences, FiniteSets, TLC

VARIABLES
    bio,        \* the reader the body-length decoders pull octets from
    call,       \* the most recent decoder call: which one, and where it began
    result,     \* what that call returned
    builder,    \* the PacketParserBuilder being configured
    ppr,        \* what finalize returned, once it has run
    common,     \* the Common fields of one packet
    op,         \* the most recent operation on them, and what it found
    returned,   \* what that operation returned
    pile,       \* the container whose descendants are iterated
    iter,       \* the PacketPathIter over them
    yielded,    \* the items it returned so far, in order
    item,       \* what the most recent call of next returned
    nones,      \* how many calls of next returned None
    message,    \* the nested packets of the input the parser reads
    pp,         \* the streaming parser: its settings and its position
    stream      \* the packets the parser returned so far, in order

varsBodyLength == <<bio, call, result>>
varsBuilder == <<builder, ppr>>
varsCommon == <<common, op, returned>>
varsIter == <<pile, iter, yielded, item, nones>>
varsParser == <<message, pp, stream>>

vars == <<bio, call, result, builder, ppr, common, op, returned,
          pile, iter, yielded, item, nones, message, pp, stream>>

\* The value of the variables a specification does not use.
Idle == [state |-> "idle"]

IdleIter ==
    /\ pile = Idle
    /\ iter = Idle
    /\ yielded = Idle
    /\ item = Idle
    /\ nones = Idle

IdleParser ==
    /\ message = Idle
    /\ pp = Idle
    /\ stream = Idle

(***************************************************************************)
(* Bounds of the model.                                                    *)
(***************************************************************************)
\* Octets following the first octet of an input.
MaxTail == 4

\* Octets following the CTB of an input handed to the builder.
MaxBody == 2

\* Octets of a body given to set_body.
MaxData == 2

\* Packets in a container.
MaxPackets == 3

\* The values the octets after the first one are drawn from.
TailOctets == {0, 251}

\* Every value of a u8.
U8 == 0..255

(***************************************************************************)
(* u32 arithmetic.  A u32 is kept as two 16-bit halves, so that every      *)
(* value of the type is representable and wrap-around is explicit.         *)
(***************************************************************************)
Half == 65536

\* `x as u32` for a u8 or u16 value x.
AsU32(x) == [hi |-> 0, lo |-> x]

\* a + b, wrapping.
Add32(a, b) ==
    LET lo == a.lo + b.lo IN
    [hi |-> (a.hi + b.hi + lo \div Half) % Half, lo |-> lo % Half]

\* a - b, wrapping.
Sub32(a, b) ==
    LET borrow == IF a.lo < b.lo THEN 1 ELSE 0 IN
    [hi |-> (a.hi - b.hi - borrow + Half) % Half,
     lo |-> (a.lo - b.lo + Half) % Half]

\* `x << n` on a u32: bits shifted past bit 31 are lost.
RECURSIVE Shl32(_, _)
Shl32(x, n) ==
    IF n = 0 THEN x
    ELSE Shl32([hi |-> (2 * x.hi + (2 * x.lo) \div Half) % Half,
                lo |-> (2 * x.lo) % Half], n - 1)

\* `a & b` on unsigned integers.
RECURSIVE BitAnd(_, _)
BitAnd(a, b) ==
    IF a = 0 \/ b = 0 THEN 0
    ELSE (a % 2) * (b % 2) + 2 * BitAnd(a \div 2, b \div 2)

(***************************************************************************)
(* The byte source (buffered_reader::Memory): a buffer and a cursor.       *)
(***************************************************************************)
Memory(input) == [buffer |-> input, cursor |-> 0]

\* The octets not yet consumed.
Unread(r) == SubSeq(r.buffer, r.cursor + 1, Len(r.buffer))

\* data_consume_hard(n): peek and consume; fails, consuming nothing, when
\* fewer than n octets are left.  The returned slice starts at the old cursor.
data_consume_hard(r, n) ==
    IF Len(Unread(r)) < n
    THEN [ok |-> FALSE, bio |-> r]
    ELSE [ok |-> TRUE, data |-> Unread(r),
          bio |-> [r EXCEPT !.cursor = r.cursor + n]]

\* read_be_u16 / read_be_u32: typed big-endian reads.
read_be_u16(r) ==
    LET d == data_consume_hard(r, 2) IN
    IF ~d.ok THEN [ok |-> FALSE, bio |-> d.bio]
    ELSE [ok |-> TRUE, val |-> d.data[1] * 256 + d.data[2], bio |-> d.bio]

read_be_u32(r) ==
    LET d == data_consume_hard(r, 4) IN
    IF ~d.ok THEN [ok |-> FALSE, bio |-> d.bio]
    ELSE [ok |-> TRUE,
          val |-> [hi |-> d.data[1] * 256 + d.data[2],
                   lo |-> d.data[3] * 256 + d.data[4]],
          bio |-> d.bio]

\* data_eof(): everything up to the end of the source.
data_eof(r) == Unread(r)

(***************************************************************************)
(* BodyLength and its two decoders.                                        *)
(***************************************************************************)
Full(n) == [kind |-> "Full", n |-> n]
Partial(n) == [kind |-> "Partial", n |-> n]
Indeterminate == [kind |-> "Indeterminate"]

PacketLengthType == {"OneOctet", "TwoOctets", "FourOctets", "Indeterminate"}

Ok(v, r) == [ok |-> TRUE, val |-> v, bio |-> r]
Err(r) == [ok |-> FALSE, bio |-> r]

\* The arms of parse_new_format's match on the first octet; r is the reader
\* after that octet was consumed.
new_one_octet(octet1, r) == Ok(Full(AsU32(octet1)), r)

new_two_octets(octet1, r) ==
    LET o2 == data_consume_hard(r, 1) IN
    IF ~o2.ok THEN Err(o2.bio)
    ELSE Ok(Full(Add32(Add32(Shl32(Sub32(AsU32(octet1), AsU32(192)), 8),
                             AsU32(o2.data[1])),
                       AsU32(192))),
            o2.bio)

\* A partial length whose shift amount keeps six bits of the octet.
new_partial_SixBits(octet1, r) ==
    Ok(Partial(Shl32(AsU32(1), BitAnd(octet1, 63))), r)

new_partial(octet1, r) == Ok(Partial(Shl32(AsU32(1), BitAnd(octet1, 31))), r)

new_five_octets(r) ==
    LET w == read_be_u32(r) IN
    IF ~w.ok THEN Err(w.bio) ELSE Ok(Full(w.val), w.bio)

\* A decoder that forgets the bias of the two-octet form.
parse_new_format_NoBias(r) ==
    LET o1 == data_consume_hard(r, 1) IN
    IF ~o1.ok THEN Err(o1.bio)
    ELSE LET octet1 == o1.data[1] IN
         CASE octet1 \in 0..191 -> new_one_octet(octet1, o1.bio)
           [] octet1 \in 192..223 ->
                LET o2 == data_consume_hard(o1.bio, 1) IN
                IF ~o2.ok THEN Err(o2.bio)
                ELSE Ok(Full(Add32(Shl32(Sub32(AsU32(octet1), AsU32(192)), 8),
                                   AsU32(o2.data[1]))),
                        o2.bio)
           [] octet1 \in 224..254 -> new_partial(octet1, o1.bio)
           [] octet1 = 255 -> new_five_octets(o1.bio)

\* A decoder that reads a missing second octet as zero.
parse_new_format_ShortOk(r) ==
    LET o1 == data_consume_hard(r, 1) IN
    IF ~o1.ok THEN Err(o1.bio)
    ELSE LET octet1 == o1.data[1] IN
         CASE octet1 \in 0..191 -> new_one_octet(octet1, o1.bio)
           [] octet1 \in 192..223 ->
                IF Unread(o1.bio) = <<>>
                THEN Ok(Full(Add32(Shl32(Sub32(AsU32(octet1), AsU32(192)), 8),
                                   AsU32(192))),
                        o1.bio)
                ELSE new_two_octets(octet1, o1.bio)
           [] octet1 \in 224..254 -> new_partial(octet1, o1.bio)
           [] octet1 = 255 -> new_five_octets(o1.bio)

parse_new_format(r) ==
    LET o1 == data_consume_hard(r, 1) IN
    IF ~o1.ok THEN Err(o1.bio)
    ELSE LET octet1 == o1.data[1] IN
         CASE octet1 \in 0..191 -> new_one_octet(octet1, o1.bio)
           [] octet1 \in 192..223 -> new_two_octets(octet1, o1.bio)
           [] octet1 \in 224..254 -> new_partial(octet1, o1.bio)
           [] octet1 = 255 -> new_five_octets(o1.bio)

\* The arms of parse_old_format's match on the length type.
old_one_octet(r) ==
    LET o == data_consume_hard(r, 1) IN
    IF ~o.ok THEN Err(o.bio) ELSE Ok(Full(AsU32(o.data[1])), o.bio)

old_two_octets(r) ==
    LET w == read_be_u16(r) IN
    IF ~w.ok THEN Err(w.bio) ELSE Ok(Full(AsU32(w.val)), w.bio)

old_four_octets(r) ==
    LET w == read_be_u32(r) IN
    IF ~w.ok THEN Err(w.bio) ELSE Ok(Full(w.val), w.bio)

\* A decoder that reads the four-octet length with the two-octet read.
parse_old_format_ShortRead(r, length_type) ==
    CASE length_type = "OneOctet" -> old_one_octet(r)
      [] length_type = "TwoOctets" -> old_two_octets(r)
      [] length_type = "FourOctets" -> old_two_octets(r)
      [] length_type = "Indeterminate" -> Ok(Indeterminate, r)

\* A decoder that reports a length-less packet as an empty partial chunk.
parse_old_format_ChunkedEof(r, length_type) ==
    CASE length_type = "OneOctet" -> old_one_octet(r)
      [] length_type = "TwoOctets" -> old_two_octets(r)
      [] length_type = "FourOctets" -> old_four_octets(r)
      [] length_type = "Indeterminate" -> Ok(Partial(AsU32(0)), r)

parse_old_format(r, length_type) ==
    CASE length_type = "OneOctet" -> old_one_octet(r)
      [] length_type = "TwoOctets" -> old_two_octets(r)
      [] length_type = "FourOctets" -> old_four_octets(r)
      [] length_type = "Indeterminate" -> Ok(Indeterminate, r)

(***************************************************************************)
(* SpecBodyLength: a reader over some input, and decoder calls on it.      *)
(***************************************************************************)
Inputs ==
    {<<>>} \cup
    UNION {{<<o1>> \o t : t \in [1..n -> TailOctets]} :
              o1 \in U8, n \in 0..MaxTail}

NoCall == [op |-> "none"]

InitBodyLength ==
    /\ bio \in {Memory(i) : i \in Inputs}
    /\ call = NoCall
    /\ result = NoCall
    /\ builder = Idle
    /\ ppr = Idle
    /\ common = Idle
    /\ op = Idle
    /\ returned = Idle
    /\ IdleIter
    /\ IdleParser

ParseNewFormat ==
    LET res == parse_new_format(bio) IN
    /\ call' = [op |-> "new", start |-> bio.cursor]
    /\ result' = IF res.ok THEN [ok |-> TRUE, val |-> res.val]
                 ELSE [ok |-> FALSE]
    /\ bio' = res.bio
    /\ UNCHANGED <<varsIter, varsParser, varsBuilder, varsCommon>>

ParseOldFormat(length_type) ==
    LET res == parse_old_format(bio, length_type) IN
    /\ call' = [op |-> "old", length_type |-> length_type,
                start |-> bio.cursor]
    /\ result' = IF res.ok THEN [ok |-> TRUE, val |-> res.val]
                 ELSE [ok |-> FALSE]
    /\ bio' = res.bio
    /\ UNCHANGED <<varsIter, varsParser, varsBuilder, varsCommon>>

NextBodyLength ==
    \/ ParseNewFormat
    \/ \E lt \in PacketLengthType : ParseOldFormat(lt)

SpecBodyLength == InitBodyLength /\ [][NextBodyLength]_vars

(***************************************************************************)
(* The packet header: a CTB octet, then the body length.                   *)
(***************************************************************************)
\* The tags that name a packet kind.
KnownTags == {1, 2, 3, 4, 5, 6, 7, 8, 10, 11, 12, 13, 14, 17, 18, 19, 20}

\* The length type in the low two bits of an old-format CTB.
LengthTypeOf(bits) ==
    CASE bits = 0 -> "OneOctet"
      [] bits = 1 -> "TwoOctets"
      [] bits = 2 -> "FourOctets"
      [] bits = 3 -> "Indeterminate"

\* CTB: the high bit must be set; bit 6 tells new format from old.
ctb_parse(octet) ==
    IF octet < 128 THEN [ok |-> FALSE]
    ELSE IF (octet \div 64) % 2 = 1
         THEN [ok |-> TRUE, format |-> "new", tag |-> octet % 64]
         ELSE [ok |-> TRUE, format |-> "old", tag |-> (octet \div 4) % 16,
               length_type |-> LengthTypeOf(octet % 4)]

\* Header::parse: the CTB, then the body length in the CTB's format.
Header_length(ctb, r) ==
    IF ctb.format = "new" THEN parse_new_format(r)
    ELSE parse_old_format(r, ctb.length_type)

Header_new(ctb, len) ==
    IF ~len.ok THEN Err(len.bio)
    ELSE Ok([ctb |-> ctb, length |-> len.val], len.bio)

Header_after_ctb(ctb, r) ==
    IF ~ctb.ok THEN Err(r) ELSE Header_new(ctb, Header_length(ctb, r))

Header_from(c) ==
    IF ~c.ok THEN Err(c.bio) ELSE Header_after_ctb(ctb_parse(c.data[1]), c.bio)

Header_parse(r) == Header_from(data_consume_hard(r, 1))

\* Header::valid: the tag names a known packet kind.
Header_valid(header) == header.ctb.tag \in KnownTags

(***************************************************************************)
(* ASCII armor.                                                            *)
(***************************************************************************)
ArmorBegin == <<45, 45, 45, 45, 45, 66, 69, 71, 73, 78, 32, 80, 71, 80, 32>>
ArmorEnd == <<45, 45, 45, 45, 45, 69, 78, 68, 32, 80, 71, 80, 32>>
ArmorDashes == <<45, 45, 45, 45, 45>>
ArmorLabels ==
    { <<77, 69, 83, 83, 65, 71, 69>>,
      <<80, 85, 66, 76, 73, 67, 32, 75, 69, 89, 32, 66, 76, 79, 67, 75>>,
      <<80, 82, 73, 86, 65, 84, 69, 32, 75, 69, 89, 32, 66, 76, 79, 67, 75>>,
      <<83, 73, 71, 78, 65, 84, 85, 82, 69>>,
      <<65, 82, 77, 79, 82, 69, 68, 32, 70, 73, 76, 69>> }
LabelSignature == <<83, 73, 71, 78, 65, 84, 85, 82, 69>>
Newline == <<10>>
Whitespace == {9, 10, 13, 32}

IsPrefix(p, s) == Len(p) <= Len(s) /\ SubSeq(s, 1, Len(p)) = p
IsSuffix(p, s) == Len(p) <= Len(s) /\ SubSeq(s, Len(s) - Len(p) + 1, Len(s)) = p
Drop(s, n) == SubSeq(s, n + 1, Len(s))

\* The Base64 alphabet: the character of a 6-bit value, and back.
B64Char(v) ==
    CASE v < 26 -> 65 + v
      [] v \in 26..51 -> 97 + (v - 26)
      [] v \in 52..61 -> 48 + (v - 52)
      [] v = 62 -> 43
      [] v = 63 -> 47

B64Alphabet == {B64Char(v) : v \in 0..63}
B64Val(c) == CHOOSE v \in 0..63 : B64Char(v) = c
B64Pad == 61

RECURSIVE Base64Encode(_)
Base64Encode(b) ==
    CASE Len(b) = 0 -> <<>>
      [] Len(b) = 1 ->
            <<B64Char(b[1] \div 4), B64Char((b[1] % 4) * 16), B64Pad, B64Pad>>
      [] Len(b) = 2 ->
            <<B64Char(b[1] \div 4),
              B64Char((b[1] % 4) * 16 + b[2] \div 16),
              B64Char((b[2] % 16) * 4), B64Pad>>
      [] OTHER ->
            <<B64Char(b[1] \div 4),
              B64Char((b[1] % 4) * 16 + b[2] \div 16),
              B64Char((b[2] % 16) * 4 + b[3] \div 64),
              B64Char(b[3] % 64)>> \o Base64Encode(Drop(b, 3))

\* Decoding, four characters at a time; padding ends the data.
RECURSIVE Base64Decode(_)
Base64Decode(c) ==
    IF Len(c) = 0 THEN [ok |-> TRUE, data |-> <<>>]
    ELSE IF Len(c) < 4 \/ c[1] \notin B64Alphabet \/ c[2] \notin B64Alphabet
    THEN [ok |-> FALSE]
    ELSE LET v1 == B64Val(c[1])
             v2 == B64Val(c[2])
             o1 == v1 * 4 + v2 \div 16 IN
         IF c[3] = B64Pad
         THEN IF c[4] = B64Pad /\ Len(c) = 4
              THEN [ok |-> TRUE, data |-> <<o1>>] ELSE [ok |-> FALSE]
         ELSE IF c[3] \notin B64Alphabet THEN [ok |-> FALSE]
         ELSE LET v3 == B64Val(c[3])
                  o2 == (v2 % 16) * 16 + v3 \div 4 IN
              IF c[4] = B64Pad
              THEN IF Len(c) = 4
                   THEN [ok |-> TRUE, data |-> <<o1, o2>>] ELSE [ok |-> FALSE]
              ELSE IF c[4] \notin B64Alphabet THEN [ok |-> FALSE]
              ELSE LET rest == Base64Decode(Drop(c, 4)) IN
                   IF ~rest.ok THEN rest
                   ELSE [ok |-> TRUE,
                         data |-> <<o1, o2, (v3 % 4) * 64 + B64Val(c[4])>>
                                  \o rest.data]

\* The armor writer: the framing lines around the Base64 of the data.
ArmorEncode(label, data) ==
    ArmorBegin \o label \o ArmorDashes \o Newline
    \o Newline
    \o Base64Encode(data) \o Newline
    \o ArmorEnd \o label \o ArmorDashes \o Newline

RECURSIVE SkipWhitespace(_)
SkipWhitespace(s) ==
    IF s # <<>> /\ s[1] \in Whitespace THEN SkipWhitespace(Tail(s)) ELSE s

\* The first line of s, without its line end, and what follows that line.
RECURSIVE LineLen(_)
LineLen(s) == IF s = <<>> \/ s[1] = 10 THEN 0 ELSE 1 + LineLen(Tail(s))
StripCR(l) == IF l # <<>> /\ l[Len(l)] = 13 THEN SubSeq(l, 1, Len(l) - 1) ELSE l
FirstLine(s) == StripCR(SubSeq(s, 1, LineLen(s)))
AfterLine(s) == Drop(s, LineLen(s) + 1)

\* The armor headers end at the first blank line.
RECURSIVE SkipArmorHeaders(_)
SkipArmorHeaders(s) ==
    IF s = <<>> \/ FirstLine(s) = <<>> THEN AfterLine(s)
    ELSE SkipArmorHeaders(AfterLine(s))

\* The Base64 characters of the body lines: up to a checksum line, the END
\* line or the end of the input; whitespace is ignored.
RECURSIVE BodyChars(_)
BodyChars(s) ==
    IF s = <<>> THEN <<>>
    ELSE LET l == FirstLine(s) IN
         IF IsPrefix(<<B64Pad>>, l) \/ IsPrefix(ArmorDashes, l) THEN <<>>
         ELSE SelectSeq(l, LAMBDA c : c \notin Whitespace)
              \o BodyChars(AfterLine(s))

\* armor::Reader: what reading the source through the armor reader yields.
\* A source without an armor header line yields no data at all.
armor_read(s) ==
    LET t == SkipWhitespace(s)
        l == FirstLine(t) IN
    IF ~(/\ IsPrefix(ArmorBegin, l)
         /\ IsSuffix(ArmorDashes, l)
         /\ Len(l) >= Len(ArmorBegin) + Len(ArmorDashes)
         /\ SubSeq(l, Len(ArmorBegin) + 1, Len(l) - Len(ArmorDashes))
               \in ArmorLabels)
    THEN [ok |-> TRUE, data |-> <<>>]
    ELSE Base64Decode(BodyChars(SkipArmorHeaders(AfterLine(t))))

(***************************************************************************)
(* PacketParserBuilder.                                                    *)
(***************************************************************************)
None == [some |-> FALSE]
Some(v) == [some |-> TRUE, val |-> v]

ReaderMode == {"Tolerant", "VeryTolerant"}
DefaultReaderMode == "Tolerant"

Enabled(mode) == [kind |-> "Enabled", mode |-> mode]
Disabled == [kind |-> "Disabled"]
Auto(mode) == [kind |-> "Auto", mode |-> mode]
Dearmor == {Disabled} \cup {Enabled(m) : m \in ReaderMode}
                      \cup {Auto(m) : m \in ReaderMode}

MAX_RECURSION_DEPTH == 16

DefaultSettings ==
    [max_recursion_depth |-> MAX_RECURSION_DEPTH,
     buffer_unread_content |-> FALSE,
     map |-> FALSE]

\* from_buffered_reader: the reader, automatic dearmoring, default settings.
from_buffered_reader(r) ==
    [bio |-> r, dearmor |-> Auto(DefaultReaderMode), settings |-> DefaultSettings]

\* A max_recursion_depth that leaves the setting alone.
max_recursion_depth_Ignored(self, value) == self

\* A max_recursion_depth that allows one level more.
max_recursion_depth_OneMore(self, value) ==
    [self EXCEPT !.settings.max_recursion_depth = value + 1]

\* PacketParserBuilder::max_recursion_depth
max_recursion_depth(self, value) ==
    [self EXCEPT !.settings.max_recursion_depth = value]

\* from_bytes: a memory reader over the bytes.
from_bytes(bytes) == from_buffered_reader(Memory(bytes))

\* buffered_reader::Dup: reads the inner reader's data with a cursor of its
\* own; into_inner gives the inner reader back as it was.
Dup(r) == [buffer |-> Unread(r), cursor |-> 0, inner |-> r]
into_inner(dup) == dup.inner

\* An Auto arm that takes every header that parses for a binary packet.
dearmor_auto_KeepInvalid(mode, header) ==
    [mode |-> IF header.ok THEN None ELSE Some(mode),
     bio |-> into_inner(header.bio),
     probed |-> TRUE]

\* The Auto arm of the match on self.dearmor in finalize: header is what
\* Header::parse returned on the Dup reader.
dearmor_auto(mode, header) ==
    [mode |-> IF header.ok
              THEN IF ~Header_valid(header.val) THEN Some(mode) ELSE None
              ELSE Some(mode),
     bio |-> into_inner(header.bio),
     probed |-> TRUE]

\* A match whose Enabled arm detects the encoding as the Auto arm does.
dearmor_mode_EnabledIsAuto(b) ==
    CASE b.dearmor.kind = "Enabled" ->
            dearmor_auto(b.dearmor.mode, Header_parse(Dup(b.bio)))
      [] b.dearmor.kind = "Disabled" ->
            [mode |-> None, bio |-> b.bio, probed |-> FALSE]
      [] b.dearmor.kind = "Auto" ->
            dearmor_auto(b.dearmor.mode, Header_parse(Dup(b.bio)))

\* A match whose Disabled arm detects the encoding as the Auto arm does.
dearmor_mode_DisabledIsAuto(b) ==
    CASE b.dearmor.kind = "Enabled" ->
            [mode |-> Some(b.dearmor.mode), bio |-> b.bio, probed |-> FALSE]
      [] b.dearmor.kind = "Disabled" ->
            dearmor_auto(DefaultReaderMode, Header_parse(Dup(b.bio)))
      [] b.dearmor.kind = "Auto" ->
            dearmor_auto(b.dearmor.mode, Header_parse(Dup(b.bio)))

\* The match on self.dearmor in finalize: the armor mode to use, if any, the
\* reader afterwards, and whether a header was probed.
dearmor_mode(b) ==
    CASE b.dearmor.kind = "Enabled" ->
            [mode |-> Some(b.dearmor.mode), bio |-> b.bio, probed |-> FALSE]
      [] b.dearmor.kind = "Disabled" ->
            [mode |-> None, bio |-> b.bio, probed |-> FALSE]
      [] b.dearmor.kind = "Auto" ->
            dearmor_auto(b.dearmor.mode, Header_parse(Dup(b.bio)))

\* PacketParser::parse on the first packet of a source: EOF on an empty
\* source, an error when the header does not parse, else the packet.
PacketParser_first(header, state, path) ==
    IF ~header.ok THEN [kind |-> "Err"]
    ELSE [kind |-> "Success", tag |-> header.val.ctb.tag,
          header |-> header.val, state |-> state, path |-> path]

PacketParser_parse(source, state, path) ==
    IF ~source.ok THEN [kind |-> "Err"]
    ELSE IF source.data = <<>>
    THEN [kind |-> "EOF", state |-> state, path |-> path]
    ELSE PacketParser_first(Header_parse(Memory(source.data)), state, path)

\* PacketParserState::new: the settings and three validators without tokens.
PacketParserState_new(settings) ==
    [settings |-> settings,
     message_validator |-> <<>>,
     keyring_validator |-> <<>>,
     tpk_validator |-> <<>>]

\* A source that falls back to the raw octets when the armor reader yields
\* nothing.
finalize_source_Fallback(dm) ==
    IF dm.mode.some /\ armor_read(Unread(dm.bio)) # [ok |-> TRUE, data |-> <<>>]
    THEN armor_read(Unread(dm.bio))
    ELSE [ok |-> TRUE, data |-> Unread(dm.bio)]

\* The source finalize hands to the parser: the reader, wrapped in an armor
\* reader when an armor mode was chosen.
finalize_source(dm) ==
    IF dm.mode.some THEN armor_read(Unread(dm.bio))
    ELSE [ok |-> TRUE, data |-> Unread(dm.bio)]

\* A match that pushes the tag to the message validator only.
finalize_match_MessageOnly(parsed, seen) ==
    CASE parsed.kind = "Err" -> [kind |-> "Err", seen |-> seen]
      [] parsed.kind = "Success" ->
            [kind |-> "Some", seen |-> seen,
             packet |-> [tag |-> parsed.tag, header |-> parsed.header],
             path |-> parsed.path,
             state |-> [parsed.state EXCEPT
                 !.message_validator =
                     Append(@, [tag |-> parsed.tag, path |-> <<0>>])]]
      [] parsed.kind = "EOF" ->
            [kind |-> "EOF", seen |-> seen, state |-> parsed.state]

\* The match on what PacketParser::parse returned.  seen records how the
\* source was set up: the armor mode, whether a header was probed, and where
\* in the input the source began.
finalize_match(parsed, seen) ==
    CASE parsed.kind = "Err" -> [kind |-> "Err", seen |-> seen]
      [] parsed.kind = "Success" ->
            [kind |-> "Some", seen |-> seen,
             packet |-> [tag |-> parsed.tag, header |-> parsed.header],
             path |-> parsed.path,
             state |-> [parsed.state EXCEPT
                 !.message_validator =
                     Append(@, [tag |-> parsed.tag, path |-> <<0>>]),
                 !.keyring_validator = Append(@, parsed.tag),
                 !.tpk_validator = Append(@, parsed.tag)]]
      [] parsed.kind = "EOF" ->
            [kind |-> "EOF", seen |-> seen, state |-> parsed.state]

finalize_with(b, dm) ==
    finalize_match(
        PacketParser_parse(finalize_source(dm),
                           PacketParserState_new(b.settings), <<0>>),
        [armor |-> dm.mode, probed |-> dm.probed, start |-> dm.bio.cursor])

\* finalize: what it returns.
finalize(b) == finalize_with(b, dearmor_mode(b))

(***************************************************************************)
(* SpecBuilder: a builder over some input is configured, then finalized.   *)
(***************************************************************************)
\* First octets: old and new format signatures, a compressed-data packet,
\* the reserved tag and an unassigned tag, and octets that are no CTB.
CTBs == {136, 139, 194, 200, 192, 255, 45, 0}

BinaryInputs ==
    {<<>>} \cup
    UNION {{<<c>> \o t : t \in [1..n -> {0, 2}]} : c \in CTBs, n \in 0..MaxBody}

ArmoredInputs == {ArmorEncode(LabelSignature, b) : b \in BinaryInputs}

BuilderInputs == BinaryInputs \cup ArmoredInputs

Building == [state |-> "building"]

InitBuilder ==
    /\ builder \in {from_bytes(i) : i \in BuilderInputs}
    /\ ppr = Building
    /\ bio = Idle
    /\ call = Idle
    /\ result = Idle
    /\ common = Idle
    /\ op = Idle
    /\ returned = Idle
    /\ IdleIter
    /\ IdleParser

SetDearmor(mode) ==
    /\ ppr = Building
    /\ builder' = [builder EXCEPT !.dearmor = mode]
    /\ UNCHANGED <<varsIter, varsParser, ppr, varsBodyLength, varsCommon>>

SetMaxRecursionDepth(value) ==
    /\ ppr = Building
    /\ builder' = max_recursion_depth(builder, value)
    /\ UNCHANGED <<varsIter, varsParser, ppr, varsBodyLength, varsCommon>>

BufferUnreadContent ==
    /\ ppr = Building
    /\ builder' = [builder EXCEPT !.settings.buffer_unread_content = TRUE]
    /\ UNCHANGED <<varsIter, varsParser, ppr, varsBodyLength, varsCommon>>

DropUnreadContent ==
    /\ ppr = Building
    /\ builder' = [builder EXCEPT !.settings.buffer_unread_content = FALSE]
    /\ UNCHANGED <<varsIter, varsParser, ppr, varsBodyLength, varsCommon>>

SetMap(enable) ==
    /\ ppr = Building
    /\ builder' = [builder EXCEPT !.settings.map = enable]
    /\ UNCHANGED <<varsIter, varsParser, ppr, varsBodyLength, varsCommon>>

\* finalize consumes the builder; it is kept here as finalize found it.
Finalize ==
    /\ ppr = Building
    /\ ppr' = finalize(builder)
    /\ UNCHANGED <<varsIter, varsParser,
                 builder, varsBodyLength, varsCommon>>

NextBuilder ==
    \/ \E mode \in Dearmor : SetDearmor(mode)
    \/ \E value \in {0, MAX_RECURSION_DEPTH} : SetMaxRecursionDepth(value)
    \/ BufferUnreadContent
    \/ DropUnreadContent
    \/ \E enable \in BOOLEAN : SetMap(enable)
    \/ Finalize

SpecBuilder == InitBuilder /\ [][NextBuilder]_vars

(***************************************************************************)
(* Common and Container.                                                   *)
(***************************************************************************)
\* Common::default.
Common_default == [children |-> None, body |-> None]

\* Container::new and Container::push.
Container_new == [packets |-> <<>>]
Container_push(container, packet) ==
    [container EXCEPT !.packets = Append(@, packet)]

\* An insert that puts the packet behind the one at the index.
Container_insert_After(container, i, packet) ==
    [container EXCEPT !.packets =
        IF i < Len(@)
        THEN SubSeq(@, 1, i + 1) \o <<packet>> \o SubSeq(@, i + 2, Len(@))
        ELSE Append(@, packet)]

\* Container::insert: Vec::insert at index i, counted from 0.
Container_insert(container, i, packet) ==
    [container EXCEPT !.packets =
        SubSeq(@, 1, i) \o <<packet>> \o SubSeq(@, i + 1, Len(@))]

\* slice::Iter: a slice and how many of its elements were yielded.
SliceIter(slice) == [slice |-> slice, pos |-> 0]

SliceIter_next(it) ==
    IF it.pos < Len(it.slice)
    THEN [item |-> Some(it.slice[it.pos + 1]),
          iter |-> [it EXCEPT !.pos = it.pos + 1]]
    ELSE [item |-> None, iter |-> it]

\* Container::children: an iterator over the packets.
Container_children(container) == SliceIter(container.packets)

\* A set_body that leaves the children in place.
set_body_KeepChildren(c, data) ==
    [common |-> [c EXCEPT
                    !.body = IF Len(data) = 0 THEN None ELSE Some(data)],
     ret |-> IF c.body.some THEN c.body.val ELSE <<>>]

\* A set_body that stores whatever it is given.
set_body_StoreEmpty(c, data) ==
    [common |-> [children |-> None, body |-> Some(data)],
     ret |-> IF c.body.some THEN c.body.val ELSE <<>>]

\* Common::set_body: the fields afterwards, and the Vec it returns.
set_body(c, data) ==
    [common |-> [children |-> None,
                 body |-> IF Len(data) = 0 THEN None ELSE Some(data)],
     ret |-> IF c.body.some THEN c.body.val ELSE <<>>]

\* Common::body: the stored body, if any.
body(c) == c.body

(***************************************************************************)
(* SpecCommon: the Common fields of a packet, from Common::default.        *)
(***************************************************************************)
DataOctets == {0, 7}
Data == UNION {[1..n -> DataOctets] : n \in 0..MaxData}

\* Packets to put into a container: a signature and a literal.
ChildPackets == {[tag |-> t, common |-> Common_default] : t \in {2, 11}}

InitCommon ==
    /\ common = Common_default
    /\ op = [name |-> "default"]
    /\ returned = Idle
    /\ bio = Idle
    /\ call = Idle
    /\ result = Idle
    /\ builder = Idle
    /\ ppr = Idle
    /\ IdleIter
    /\ IdleParser

SetBody(data) ==
    /\ common' = set_body(common, data).common
    /\ returned' = set_body(common, data).ret
    /\ op' = [name |-> "set_body", data |-> data, before |-> common]
    /\ UNCHANGED <<varsIter, varsParser, varsBodyLength, varsBuilder>>

\* The children field is public: a container is stored into it.
SetChildren ==
    /\ common' = [common EXCEPT !.children = Some(Container_new)]
    /\ op' = [name |-> "children", before |-> common]
    /\ UNCHANGED <<varsIter, varsParser,
                 returned, varsBodyLength, varsBuilder>>

PushChild(packet) ==
    /\ common.children.some
    /\ Len(common.children.val.packets) < MaxPackets
    /\ common' = [common EXCEPT
                     !.children = Some(Container_push(@.val, packet))]
    /\ op' = [name |-> "push", packet |-> packet, before |-> common]
    /\ UNCHANGED <<varsIter, varsParser,
                 returned, varsBodyLength, varsBuilder>>

\* Vec::insert panics on an index beyond the length: such calls are left out.
InsertChild(i, packet) ==
    /\ common.children.some
    /\ Len(common.children.val.packets) < MaxPackets
    /\ i <= Len(common.children.val.packets)
    /\ common' = [common EXCEPT
                     !.children = Some(Container_insert(@.val, i, packet))]
    /\ op' = [name |-> "insert", index |-> i, packet |-> packet,
              before |-> common]
    /\ UNCHANGED <<varsIter, varsParser,
                 returned, varsBodyLength, varsBuilder>>

NextCommon ==
    \/ \E data \in Data : SetBody(data)
    \/ SetChildren
    \/ \E packet \in ChildPackets : PushChild(packet)
    \/ \E i \in 0..MaxPackets, packet \in ChildPackets : InsertChild(i, packet)

SpecCommon == InitCommon /\ [][NextCommon]_vars

(***************************************************************************)
(* PacketIter and PacketPathIter.                                          *)
(*                                                                         *)
(* A packet is a record of its tag, its Common fields and id, the position *)
(* of the packet in the tree it belongs to: id stands for the address that *)
(* a &Packet refers to, so that two packets with equal contents at         *)
(* different places are different items.                                   *)
(***************************************************************************)
\* Packets in a tree.
MaxNodes == 6

\* How many times next is called after it returned None.
MaxNones == 2

CompressedData == 8
Literal == 11

\* The packets with n packets in all (the packet and its descendants) at
\* position id, and the packet sequences with n packets in all whose first
\* packet is child number i of the packet at prefix.
RECURSIVE PacketTrees(_, _), PacketSeqs(_, _, _)
PacketTrees(n, id) ==
    IF n = 1
    THEN {[tag |-> Literal, id |-> id, common |-> Common_default],
          [tag |-> CompressedData, id |-> id,
           common |-> [children |-> Some(Container_new), body |-> None]]}
    ELSE {[tag |-> CompressedData, id |-> id,
           common |-> [children |-> Some([packets |-> f]), body |-> None]] :
             f \in PacketSeqs(n - 1, id, 0)}

PacketSeqs(n, prefix, i) ==
    IF n = 0
    THEN {<<>>}
    ELSE UNION {{<<t>> \o f : t \in PacketTrees(k, Append(prefix, i)),
                              f \in PacketSeqs(n - k, prefix, i + 1)} :
                  k \in 1..n}

\* The packets held by a packet.
ChildrenOf(p) ==
    IF p.common.children.some THEN p.common.children.val.packets ELSE <<>>

\* PacketPile::path_ref on the packets of a container: the indices of a path
\* count from 0.
RECURSIVE path_ref(_, _)
path_ref(packets, path) ==
    IF path = <<>> \/ path[1] >= Len(packets)
    THEN None
    ELSE IF Len(path) = 1
    THEN Some(packets[path[1] + 1])
    ELSE path_ref(ChildrenOf(packets[path[1] + 1]), Tail(path))

\* Common::descendants
Common_descendants(c) ==
    [children |-> IF c.children.some
                  THEN SliceIter(c.children.val.packets)
                  ELSE SliceIter(<<>>),
     child |-> None,
     grandchildren |-> None,
     depth |-> 0]

\* Container::descendants
Container_descendants(container) ==
    [children |-> Container_children(container),
     child |-> None,
     grandchildren |-> None,
     depth |-> 0]

\* A grandchild step that reports the depth within the grandchildren.
PacketIter_grandchild_SameDepth(self, g) ==
    [item |-> g.item,
     iter |-> [self EXCEPT !.grandchildren = Some(g.iter),
                           !.depth = g.iter.depth]]

\* PacketIter::next, a grandchild was found: g is what grandchildren.next()
\* returned and left behind.
PacketIter_grandchild(self, g) ==
    [item |-> g.item,
     iter |-> [self EXCEPT !.grandchildren = Some(g.iter),
                           !.depth = g.iter.depth + 1]]

\* A step to the next child that leaves the grandchildren of the previous
\* child in place.
PacketIter_child_NoDescent(self, c) ==
    [item |-> c.item,
     iter |-> [self EXCEPT !.children = c.iter,
                           !.child = c.item,
                           !.depth = 0]]

\* A step to the next child that keeps the previous child once the children
\* are used up, and iterates over its descendants again.
PacketIter_child_KeepChild(self, c) ==
    [item |-> c.item,
     iter |-> [self EXCEPT
                 !.children = c.iter,
                 !.child = IF c.item.some THEN c.item ELSE @,
                 !.grandchildren =
                     IF c.item.some
                     THEN Some(Common_descendants(c.item.val.common))
                     ELSE IF self.child.some
                     THEN Some(Common_descendants(self.child.val.common))
                     ELSE @,
                 !.depth = 0]]

\* A step to the next child that leaves the depth as it was.
PacketIter_child_KeepDepth(self, c) ==
    [item |-> c.item,
     iter |-> [self EXCEPT
                 !.children = c.iter,
                 !.child = c.item,
                 !.grandchildren =
                     IF c.item.some
                     THEN Some(Common_descendants(c.item.val.common))
                     ELSE @]]

\* PacketIter::next, the step to the next child: c is what children.next()
\* returned and left behind.
PacketIter_child(self, c) ==
    [item |-> c.item,
     iter |-> [self EXCEPT
                 !.children = c.iter,
                 !.child = c.item,
                 !.grandchildren =
                     IF c.item.some
                     THEN Some(Common_descendants(c.item.val.common))
                     ELSE @,
                 !.depth = 0]]

\* PacketIter::next with grandchildren: g is what grandchildren.next()
\* returned and left behind.
PacketIter_try(self, g) ==
    IF g.item.some
    THEN PacketIter_grandchild(self, g)
    ELSE PacketIter_child([self EXCEPT !.grandchildren = Some(g.iter)],
                          SliceIter_next(self.children))

\* PacketIter::next: the item returned and the iterator afterwards.
RECURSIVE PacketIter_next(_)
PacketIter_next(self) ==
    IF self.grandchildren.some
    THEN PacketIter_try(self, PacketIter_next(self.grandchildren.val))
    ELSE PacketIter_child(self, SliceIter_next(self.children))

\* PacketIter::paths
paths(self) == [iter |-> self, path |-> None]

\* A path update that does not count the sibling reached after a pop.
PacketPathIter_path_NoIncrement(path, depth) ==
    IF Len(path) - 1 > depth
    THEN SubSeq(path, 1, depth + 1)
    ELSE IF Len(path) - 1 = depth
    THEN [path EXCEPT ![Len(path)] = @ + 1]
    ELSE IF Len(path) = depth
    THEN Append(path, 0)
    ELSE path

\* A path update that leaves the path alone at a sibling.
PacketPathIter_path_SameSibling(path, depth) ==
    IF Len(path) - 1 > depth
    THEN [SubSeq(path, 1, depth + 1) EXCEPT ![depth + 1] = @ + 1]
    ELSE IF Len(path) - 1 = depth
    THEN path
    ELSE IF Len(path) = depth
    THEN Append(path, 0)
    ELSE path

\* A path update that numbers the first child 1.
PacketPathIter_path_FromOne(path, depth) ==
    IF Len(path) - 1 > depth
    THEN [SubSeq(path, 1, depth + 1) EXCEPT ![depth + 1] = @ + 1]
    ELSE IF Len(path) - 1 = depth
    THEN [path EXCEPT ![Len(path)] = @ + 1]
    ELSE IF Len(path) = depth
    THEN Append(path, 1)
    ELSE path

\* PacketPathIter::next, the update of an existing path: old_depth is
\* Len(path) - 1 and depth is the depth of the inner iterator.
PacketPathIter_path(path, depth) ==
    IF Len(path) - 1 > depth
    THEN [SubSeq(path, 1, depth + 1) EXCEPT ![depth + 1] = @ + 1]
    ELSE IF Len(path) - 1 = depth
    THEN [path EXCEPT ![Len(path)] = @ + 1]
    ELSE IF Len(path) = depth
    THEN Append(path, 0)
    ELSE path

\* PacketPathIter::next, a packet was found: path is the new path.
PacketPathIter_some(n, path) ==
    [item |-> Some([path |-> path, packet |-> n.item.val]),
     iter |-> [iter |-> n.iter, path |-> Some(path)]]

\* PacketPathIter::next after the inner next: n is what it returned and left
\* behind.
PacketPathIter_after(self, n) ==
    IF n.item.some
    THEN PacketPathIter_some(n,
             IF self.path.some
             THEN PacketPathIter_path(self.path.val, n.iter.depth)
             ELSE <<0>>)
    ELSE [item |-> None, iter |-> [self EXCEPT !.iter = n.iter]]

\* PacketPathIter::next: the item returned and the iterator afterwards.
PacketPathIter_next(self) == PacketPathIter_after(self, PacketIter_next(self.iter))

\* A container of at most MaxNodes packets in all is iterated with
\* descendants().paths().
InitIter ==
    /\ \E n \in 0..MaxNodes : \E f \in PacketSeqs(n, <<>>, 0) :
          /\ pile = [packets |-> f]
          /\ iter = paths(Container_descendants([packets |-> f]))
    /\ yielded = <<>>
    /\ item = Idle
    /\ nones = 0
    /\ bio = Idle
    /\ call = Idle
    /\ result = Idle
    /\ builder = Idle
    /\ ppr = Idle
    /\ common = Idle
    /\ op = Idle
    /\ returned = Idle
    /\ IdleParser

\* The call of next returned n.item and left n.iter behind.  An item is
\* recorded with the depth the inner iterator reports for it.
IterReturned(n) ==
    /\ iter' = n.iter
    /\ item' = n.item
    /\ yielded' = IF n.item.some
                  THEN Append(yielded, [path |-> n.item.val.path,
                                        packet |-> n.item.val.packet,
                                        depth |-> n.iter.iter.depth])
                  ELSE yielded
    /\ nones' = IF n.item.some THEN nones ELSE nones + 1

IterNext ==
    /\ nones < MaxNones
    /\ IterReturned(PacketPathIter_next(iter))
    /\ UNCHANGED <<pile, varsParser, varsBodyLength, varsBuilder, varsCommon>>

NextIter == IterNext

SpecIter == InitIter /\ [][NextIter]_vars

(***************************************************************************)
(* The streaming parser and the eager PacketPile builder.                  *)
(*                                                                         *)
(* The input is taken as parsed into framing: a message is the sequence of *)
(* its top-level packets, and a container's children are the packets its   *)
(* body holds.  The parser is positioned at the packet at pp.path, or at   *)
(* the end of the input.                                                   *)
(***************************************************************************)
\* Packets in a message.
MaxMessage == 5

\* Values given to max_recursion_depth.
RecursionDepths == {0, 1, 2, MAX_RECURSION_DEPTH}

\* The container kinds: compressed data, SEIP and AED.
is_container(tag) == tag \in {CompressedData, 18, 20}

\* n packets, each but the last holding the next one.
RECURSIVE NestedMessage(_, _)
NestedMessage(n, id) ==
    IF n = 1
    THEN [tag |-> Literal, id |-> id, common |-> Common_default]
    ELSE [tag |-> CompressedData, id |-> id,
          common |-> [children |->
                          Some([packets |-> <<NestedMessage(n - 1, Append(id, 0))>>]),
                      body |-> None]]

\* The messages of at most MaxMessage packets, and one nested more deeply
\* than the default max_recursion_depth allows to descend.
Messages ==
    UNION {PacketSeqs(n, <<>>, 0) : n \in 0..MaxMessage}
        \cup {<<NestedMessage(MAX_RECURSION_DEPTH + 2, <<0>>)>>}

\* The parser positioned at the packet at path.
PacketParser_at(m, settings, path) ==
    [state |-> "HeaderParsed", path |-> path,
     tag |-> path_ref(m, path).val.tag, settings |-> settings]

PacketParser_eof(settings) == [state |-> "AtEOF", settings |-> settings]

\* The parser after finalize: at the first packet, or at EOF.
PacketParser_start(m, settings) ==
    IF m = <<>>
    THEN PacketParser_eof(settings)
    ELSE PacketParser_at(m, settings, <<0>>)

\* Ascending from the packet at path: to its sibling (the last index is
\* incremented) or, where the reader of that level is at EOF, a level up (the
\* path is truncated); at depth 0 with the source at EOF the parser is at EOF.
RECURSIVE PacketParser_ascend(_, _, _)
PacketParser_ascend(m, settings, path) ==
    IF path_ref(m, [path EXCEPT ![Len(path)] = @ + 1]).some
    THEN PacketParser_at(m, settings, [path EXCEPT ![Len(path)] = @ + 1])
    ELSE IF Len(path) = 1
    THEN PacketParser_eof(settings)
    ELSE PacketParser_ascend(m, settings, SubSeq(path, 1, Len(path) - 1))

\* Recursing into the container at path: to its first packet (0 is pushed),
\* or, where the container holds nothing, on from the container.
PacketParser_descend(m, settings, path) ==
    IF path_ref(m, Append(path, 0)).some
    THEN PacketParser_at(m, settings, Append(path, 0))
    ELSE PacketParser_ascend(m, settings, path)

\* PacketParser::next: the caller declines to recurse.
PacketParser_next(m, self) == PacketParser_ascend(m, self.settings, self.path)

\* PacketParser::recurse: the caller chooses to recurse; the parser does so
\* into a container at a depth below max_recursion_depth.
PacketParser_recurse(m, self) ==
    IF /\ is_container(self.tag)
       /\ Len(self.path) - 1 < self.settings.max_recursion_depth
    THEN PacketParser_descend(m, self.settings, self.path)
    ELSE PacketParser_ascend(m, self.settings, self.path)

\* The eager builder attaches a packet to the children of its parent.
RECURSIVE PacketPile_attach(_, _, _)
PacketPile_attach(container, path, packet) ==
    IF Len(path) = 1
    THEN Container_push(container, packet)
    ELSE [container EXCEPT !.packets[path[1] + 1].common.children =
             Some(PacketPile_attach(IF @.some THEN @.val ELSE Container_new,
                                    Tail(path), packet))]

\* The eager builder drives the parser to completion, always recursing.
RECURSIVE PacketPile_drive(_, _, _)
PacketPile_drive(m, self, container) ==
    IF self.state = "AtEOF"
    THEN container
    ELSE PacketPile_drive(m, PacketParser_recurse(m, self),
             PacketPile_attach(container, self.path,
                 [tag |-> self.tag, id |-> self.path,
                  common |-> Common_default]))

\* The PacketPile that the parser of a message with these settings yields.
PacketPile_from(m, settings) ==
    PacketPile_drive(m, PacketParser_start(m, settings), Container_new)

\* The record of a run: the (path, tag) pairs returned, whether the caller
\* recursed at every packet, and the value given to max_recursion_depth.
Streamed(items, self) ==
    IF self.state = "HeaderParsed"
    THEN Append(items, [path |-> self.path, tag |-> self.tag])
    ELSE items

ParserStarts(m, k, self) ==
    /\ message = m
    /\ pp = self
    /\ stream = [items |-> Streamed(<<>>, self), always |-> TRUE, k |-> k]

InitParser ==
    /\ \E m \in Messages, k \in RecursionDepths :
          ParserStarts(m, k,
              PacketParser_start(m,
                  max_recursion_depth(from_buffered_reader(m), k).settings))
    /\ bio = Idle
    /\ call = Idle
    /\ result = Idle
    /\ builder = Idle
    /\ ppr = Idle
    /\ common = Idle
    /\ op = Idle
    /\ returned = Idle
    /\ IdleIter

ParserMoves(self, always) ==
    /\ pp' = self
    /\ stream' = [stream EXCEPT !.items = Streamed(@, self),
                                !.always = always]

ParserRecurse ==
    /\ pp.state = "HeaderParsed"
    /\ ParserMoves(PacketParser_recurse(message, pp), stream.always)
    /\ UNCHANGED <<message, varsIter, varsBodyLength, varsBuilder, varsCommon>>

ParserNext ==
    /\ pp.state = "HeaderParsed"
    /\ ParserMoves(PacketParser_next(message, pp), FALSE)
    /\ UNCHANGED <<message, varsIter, varsBodyLength, varsBuilder, varsCommon>>

NextParser == ParserRecurse \/ ParserNext

SpecParser == InitParser /\ [][NextParser]_vars

(***************************************************************************)
(* Properties of the body-length decoders.                                 *)
(***************************************************************************)
RECURSIVE Pow2(_)
Pow2(n) == IF n = 0 THEN 1 ELSE 2 * Pow2(n - 1)

\* The u32 with value i, for 0 <= i < 2^31.
ToU32(i) == [hi |-> i \div Half, lo |-> i % Half]

\* The input, where the last call began in it, and what was left to it.
Buf == bio.buffer
At(k) == bio.buffer[call.start + k]
Avail == Len(bio.buffer) - call.start

\* How many octets each old-format length type occupies.
OldWidth(lt) ==
    CASE lt = "OneOctet" -> 1
      [] lt = "TwoOctets" -> 2
      [] lt = "FourOctets" -> 4
      [] lt = "Indeterminate" -> 0

\* C1: parse_new_format decodes a first octet o1 in 0..191 as Full(o1), o1 in
\* 192..223 followed by o2 as Full(((o1-192)<<8) + o2 + 192), o1 in 224..254
\* as Partial(1 << (o1 & 0x1F)), and 255 as Full of the next four octets read
\* big-endian, whenever those octets are there.
C1_NewFormatDecodes ==
    (call.op = "new" /\ Avail >= 1) =>
        /\ At(1) \in 0..191 => result = [ok |-> TRUE, val |-> Full(ToU32(At(1)))]
        /\ (At(1) \in 192..223 /\ Avail >= 2) =>
              result = [ok |-> TRUE,
                        val |-> Full(ToU32((At(1) - 192) * 256 + At(2) + 192))]
        /\ At(1) \in 224..254 =>
              result = [ok |-> TRUE, val |-> Partial(ToU32(Pow2(At(1) % 32)))]
        /\ (At(1) = 255 /\ Avail >= 5) =>
              result = [ok |-> TRUE,
                        val |-> Full([hi |-> At(2) * 256 + At(3),
                                      lo |-> At(4) * 256 + At(5)])]

\* The two-octet example of RFC 4880, 4.2.3: C5 FB decodes as 1723.
C1_Witness ==
    /\ call = [op |-> "new", start |-> 0]
    /\ Buf = <<197, 251>>
    /\ result = [ok |-> TRUE, val |-> Full(ToU32(1723))]

\* C2: parse_old_format returns Full of the one, two (big-endian) or four
\* (big-endian) octets of the length field, or Indeterminate, and consumes
\* exactly 1, 2, 4 or 0 octets: what follows the field is still unread, in
\* its original order.
C2_OldFormatDecodes ==
    (call.op = "old" /\ Avail >= OldWidth(call.length_type)) =>
        /\ result.ok
        /\ call.length_type = "OneOctet" => result.val = Full(ToU32(At(1)))
        /\ call.length_type = "TwoOctets" =>
              result.val = Full(ToU32(At(1) * 256 + At(2)))
        /\ call.length_type = "FourOctets" =>
              result.val = Full([hi |-> At(1) * 256 + At(2),
                                 lo |-> At(3) * 256 + At(4)])
        /\ call.length_type = "Indeterminate" => result.val = Indeterminate
        /\ bio.cursor = call.start + OldWidth(call.length_type)
        /\ data_eof(bio) = SubSeq(Buf, call.start + OldWidth(call.length_type) + 1,
                                  Len(Buf))

\* A four-octet length with an octet of body behind it.
C2_Witness ==
    /\ call = [op |-> "old", length_type |-> "FourOctets", start |-> 0]
    /\ Buf = <<251, 0, 251, 0, 251>>
    /\ result = [ok |-> TRUE, val |-> Full([hi |-> 64256, lo |-> 64256])]
    /\ data_eof(bio) = <<251>>

\* C3: parse_old_format never returns Partial and parse_new_format never
\* returns Indeterminate.
C3_PartialNewIndeterminateOld ==
    /\ (call.op = "old" /\ result.ok) => result.val.kind # "Partial"
    /\ (call.op = "new" /\ result.ok) => result.val.kind # "Indeterminate"

\* parse_new_format has returned a partial length: EF is a chunk of 32768.
C3_Witness ==
    /\ call.op = "new"
    /\ Avail >= 1
    /\ At(1) = 239
    /\ result = [ok |-> TRUE, val |-> Partial(ToU32(32768))]

\* C4: when the input ends inside the length field the decoders return an
\* error: parse_new_format on empty input, on 192..223 without a second
\* octet and on 255 with fewer than four more octets; parse_old_format with
\* fewer than 1, 2 or 4 octets; for Indeterminate it never fails.
C4_TruncatedLengthFails ==
    /\ call.op = "new" =>
          /\ Avail = 0 => result = [ok |-> FALSE]
          /\ (Avail = 1 /\ At(1) \in 192..223) => result = [ok |-> FALSE]
          /\ (Avail \in 1..4 /\ At(1) = 255) => result = [ok |-> FALSE]
    /\ call.op = "old" =>
          /\ Avail < OldWidth(call.length_type) => result = [ok |-> FALSE]
          /\ call.length_type = "Indeterminate" => result.ok

\* The two-octet form cut short after its first octet.
C4_Witness ==
    /\ call = [op |-> "new", start |-> 0]
    /\ Buf = <<192>>
    /\ result = [ok |-> FALSE]

(***************************************************************************)
(* Properties of PacketParserBuilder::finalize.                            *)
(***************************************************************************)
\* finalize has run.
Finalized == "kind" \in DOMAIN ppr

\* The bytes the builder was created over.
Input == builder.bio.buffer

\* What finalize returned, without the record of how the source was set up.
Returned(r) == [f \in DOMAIN r \ {"seen"} |-> r[f]]

\* The leading bytes parse as a header that passes the validity check.
LeadingHeaderValid(bytes) ==
    /\ Header_parse(Memory(bytes)).ok
    /\ Header_valid(Header_parse(Memory(bytes)).val)

\* The bytes hold the opening of an armor header line somewhere.
HasArmorHeader(bytes) ==
    \E i \in 1..(Len(bytes) - Len(ArmorBegin) + 1) :
        SubSeq(bytes, i, i + Len(ArmorBegin) - 1) = ArmorBegin

\* The dearmor mode that Auto(mode) is claimed to behave as on the bytes.
AutoBehavesAs(mode, bytes) ==
    IF LeadingHeaderValid(bytes) THEN Disabled ELSE Enabled(mode)

\* finalize of the same builder configured with another dearmor mode.
FinalizeAs(dearmor) == finalize([builder EXCEPT !.dearmor = dearmor])

\* C5: finalize with Auto(mode) returns what finalize with Disabled returns
\* when the leading bytes parse as a valid header, and what finalize with
\* Enabled(mode) returns otherwise; the source is set up with the same armor
\* mode and begins at the first byte of the input.
C5_AutoIsDisabledOrEnabled ==
    (Finalized /\ builder.dearmor.kind = "Auto") =>
        /\ Returned(ppr) =
              Returned(FinalizeAs(AutoBehavesAs(builder.dearmor.mode, Input)))
        /\ ppr.seen.armor =
              FinalizeAs(AutoBehavesAs(builder.dearmor.mode, Input)).seen.armor
        /\ ppr.seen.start = 0

\* Auto on an armored signature: the armor is decoded and the signature
\* packet is returned.
C5_Witness ==
    /\ Finalized
    /\ builder.dearmor = Auto("Tolerant")
    /\ Input = ArmorEncode(LabelSignature, <<136, 0>>)
    /\ ppr.kind = "Some"
    /\ ppr.packet.tag = 2
    /\ ppr.seen.armor = Some("Tolerant")

\* C6: with Disabled finalize never wraps the source in an armor reader, with
\* Enabled(mode) it always does, with that mode; in neither case is the
\* leading header probed.
C6_ModeOverridesDetection ==
    Finalized =>
        /\ builder.dearmor.kind = "Disabled" =>
              ppr.seen.armor = None /\ ~ppr.seen.probed
        /\ builder.dearmor.kind = "Enabled" =>
              ppr.seen.armor = Some(builder.dearmor.mode) /\ ~ppr.seen.probed

\* Enabled on a binary signature: the source is wrapped all the same.
C6_Witness ==
    /\ Finalized
    /\ builder.dearmor = Enabled("VeryTolerant")
    /\ Input = <<136, 0>>
    /\ ppr.seen = [armor |-> Some("VeryTolerant"), probed |-> FALSE, start |-> 0]

C8_DisabledOnArmoredIsError ==
    (/\ Finalized
     /\ builder.dearmor.kind = "Disabled"
     /\ Input # <<>>
     /\ Input[1] < 128) =>
        ppr.kind = "Err"

\* Disabled on an armored signature.
C8_Witness ==
    /\ Finalized
    /\ builder.dearmor = Disabled
    /\ Input = ArmorEncode(LabelSignature, <<136, 2, 0>>)
    /\ ppr.kind = "Err"

(***************************************************************************)
(* Properties of Common::set_body.                                         *)
(***************************************************************************)
\* C9: set_body(data) clears the children, stores data as the body (an empty
\* one as no body), and returns the body stored before, or an empty vector
\* when there was none.
C9_SetBodyEffect ==
    op.name = "set_body" =>
        /\ common.children = None
        /\ body(common) = IF op.data = <<>> THEN None ELSE Some(op.data)
        /\ op.before.body.some => returned = op.before.body.val
        /\ ~op.before.body.some => returned = <<>>

\* set_body on a packet that had children and a body.
C9_Witness ==
    /\ op.name = "set_body"
    /\ op.before.children.some
    /\ op.before.children.val.packets # <<>>
    /\ op.before.body = Some(<<7, 0>>)
    /\ op.data = <<0>>
    /\ returned = <<7, 0>>
    /\ common = [children |-> None, body |-> Some(<<0>>)]

\* C10: from Common::default, after any set_body calls the body is never
\* Some of an empty sequence, and set_body with empty data leaves it None.
C10_EmptyBodyIsNone ==
    /\ common.body # Some(<<>>)
    /\ (op.name = "set_body" /\ op.data = <<>>) => common.body = None

\* set_body with empty data on a packet that had a body.
C10_Witness ==
    /\ op.name = "set_body"
    /\ op.data = <<>>
    /\ op.before.body.some
    /\ common.body = None

\* The lengths the two-octet form decodes to, over every first octet of
\* the form and every second octet.
TwoOctetLengths ==
    {new_two_octets(o1, Memory(<<o2>>)).val.n : o1 \in 192..223, o2 \in U8}

\* The two-octet form decodes to every length from 192 to 8383 and to no
\* other.
TwoOctetFormExact == TwoOctetLengths = {ToU32(v) : v \in 192..8383}

\* C22: the one-octet form yields a length in 0..191 and the two-octet form
\* one in 192..8383, every length of that range being decoded from some two
\* octets; a Partial length is 2^e with e = o1 & 0x1F <= 30, so between 1 and
\* 2^30, and is never returned for 255.  The lengths are those of the
\* arithmetic on unbounded integers: nothing wraps around in 32 bits.
C22_NewFormatRanges ==
    /\ TwoOctetFormExact
    /\ (call.op = "new" /\ result.ok) =>
          /\ At(1) \in 0..191 =>
                /\ result.val.kind = "Full"
                /\ result.val.n.hi = 0
                /\ result.val.n.lo \in 0..191
          /\ At(1) \in 192..223 =>
                /\ result.val.kind = "Full"
                /\ result.val.n.hi = 0
                /\ result.val.n.lo \in 192..8383
                /\ result.val.n.lo = (At(1) - 192) * 256 + At(2) + 192
          /\ At(1) \in 224..254 =>
                /\ result.val.kind = "Partial"
                /\ At(1) % 32 <= 30
                /\ result.val.n = ToU32(Pow2(At(1) % 32))
          /\ result.val.kind = "Partial" =>
                /\ At(1) \in 224..254
                /\ \E e \in 0..30 : result.val.n = ToU32(Pow2(e))

\* FE decodes as the largest partial length, 2^30.
C22_Witness ==
    /\ call.op = "new"
    /\ Avail >= 1
    /\ At(1) = 254
    /\ result = [ok |-> TRUE, val |-> Partial([hi |-> 16384, lo |-> 0])]

(***************************************************************************)
(* Properties of the validators at finalize.                               *)
(***************************************************************************)
\* What PacketParser::parse returns to finalize for the builder at hand.
FirstParse ==
    PacketParser_parse(finalize_source(dearmor_mode(builder)),
                       PacketParserState_new(builder.settings), <<0>>)

\* C20: when finalize parses a first packet it returns the parser, whatever
\* the tag, and each validator holds that tag once, the message validator
\* with the path [0]; on empty input finalize returns EOF, and with EOF no
\* validator holds a tag.
C20_ValidatorsPushedOnce ==
    Finalized =>
        /\ FirstParse.kind = "Success" =>
              /\ ppr.kind = "Some"
              /\ ppr.packet.tag = FirstParse.tag
              /\ ppr.state.message_validator =
                     <<[tag |-> FirstParse.tag, path |-> <<0>>]>>
              /\ ppr.state.keyring_validator = <<FirstParse.tag>>
              /\ ppr.state.tpk_validator = <<FirstParse.tag>>
        /\ ppr.kind = "Some" => FirstParse.kind = "Success"
        /\ Input = <<>> => ppr.kind = "EOF"
        /\ ppr.kind = "EOF" =>
              /\ ppr.state.message_validator = <<>>
              /\ ppr.state.keyring_validator = <<>>
              /\ ppr.state.tpk_validator = <<>>

\* A compressed data packet, which no keyring and no TPK begins with, is the
\* first packet: the parser is returned and the three validators hold its
\* tag.
C20_Witness ==
    /\ Finalized
    /\ ppr.kind = "Some"
    /\ ppr.packet.tag = 8
    /\ ppr.state.keyring_validator = <<8>>
    /\ ppr.state.tpk_validator = <<8>>
    /\ ppr.state.message_validator = <<[tag |-> 8, path |-> <<0>>]>>

(***************************************************************************)
(* Properties of the body and children fields, and of Container.           *)
(***************************************************************************)
\* The children field holds a container with packets in it.
HasChildren(c) == c.children.some /\ c.children.val.packets # <<>>

\* Exactly one of body and children is populated.
ExactlyOnePopulated(c) == HasChildren(c) # c.body.some

\* The operation stored or extended the children.
ChildrenUpdate == op.name \in {"children", "push", "insert"}

\* C11, as claimed: setting children to non-empty clears the body, and
\* exactly one of body and children is populated after any updates.
C11_ExactlyOneOfBodyAndChildren ==
    /\ (ChildrenUpdate /\ HasChildren(common)) => common.body = None
    /\ op.name # "default" => ExactlyOnePopulated(common)

\* C11, amended: set_body clears the children, so after it body and children
\* are not both populated; storing or extending the children leaves the body
\* as it was.
C11_OnlySetBodyClears ==
    /\ op.name = "set_body" => ~(HasChildren(common) /\ common.body.some)
    /\ ChildrenUpdate => common.body = op.before.body

\* A packet is pushed into the children of a packet that has a body: both
\* are populated afterwards.
C11_Witness ==
    /\ op.name = "push"
    /\ op.before.body = Some(<<7>>)
    /\ HasChildren(common)
    /\ common.body = Some(<<7>>)

\* The packets of the children, before and after the operation.
PacketsBefore == op.before.children.val.packets
PacketsAfter == common.children.val.packets

\* The k-th packet that the iterator of children() yields.
RECURSIVE Nth(_, _)
Nth(it, k) ==
    IF k = 1 THEN SliceIter_next(it).item
    ELSE Nth(SliceIter_next(it).iter, k - 1)

\* C18: push places the packet after all existing children, insert(i, p)
\* places p at index i and shifts the children from index i on up by one,
\* both keep the order of the others, and children() yields the packets in
\* index order.
C18_ContainerKeepsOrder ==
    /\ op.name = "push" =>
          /\ Len(PacketsAfter) = Len(PacketsBefore) + 1
          /\ PacketsAfter[Len(PacketsAfter)] = op.packet
          /\ \A j \in 1..Len(PacketsBefore) : PacketsAfter[j] = PacketsBefore[j]
    /\ op.name = "insert" =>
          /\ Len(PacketsAfter) = Len(PacketsBefore) + 1
          /\ PacketsAfter[op.index + 1] = op.packet
          /\ \A j \in 1..Len(PacketsBefore) :
                /\ j <= op.index => PacketsAfter[j] = PacketsBefore[j]
                /\ j > op.index => PacketsAfter[j + 1] = PacketsBefore[j]
    /\ common.children.some =>
          /\ \A k \in 1..Len(common.children.val.packets) :
                Nth(Container_children(common.children.val), k)
                    = Some(common.children.val.packets[k])
          /\ Nth(Container_children(common.children.val),
                 Len(common.children.val.packets) + 1) = None

\* A literal is inserted between a signature and a literal.
C18_Witness ==
    /\ op.name = "insert"
    /\ op.index = 1
    /\ op.packet.tag = 11
    /\ Len(PacketsBefore) = 2
    /\ PacketsBefore[1].tag = 2
    /\ PacketsBefore[2].tag = 11
    /\ Len(PacketsAfter) = 3
    /\ PacketsAfter[3] = PacketsBefore[2]

(***************************************************************************)
(* Properties of PacketIter and PacketPathIter.                            *)
(***************************************************************************)
\* The packets of a sequence and all their descendants.
RECURSIVE Nodes(_)
Nodes(packets) ==
    UNION {{packets[i]} \cup Nodes(ChildrenOf(packets[i])) :
             i \in 1..Len(packets)}

AllPackets == Nodes(pile.packets)

\* Every packet sequence of the tree: the top level and each packet's own.
AllContainers == {pile.packets} \cup {ChildrenOf(p) : p \in AllPackets}

\* r is the sibling that follows q.
NextSibling(q, r) ==
    \E packets \in AllContainers : \E i \in 1..(Len(packets) - 1) :
        packets[i] = q /\ packets[i + 1] = r

\* The positions at which p was yielded.
YieldedAt(p) == {k \in 1..Len(yielded) : yielded[k].packet = p}

\* The iterator has returned None.
Exhausted == nones >= 1

\* C12: the packets returned by repeated calls of next are a depth-first
\* pre-order traversal: only descendants of the root, none of them twice and,
\* once None is returned, all of them; a packet comes before its children and
\* before its next sibling, and all its descendants come before that sibling.
C12_DepthFirstPreOrder ==
    /\ \A k \in 1..Len(yielded) : yielded[k].packet \in AllPackets
    /\ \A p \in AllPackets : Cardinality(YieldedAt(p)) <= 1
    /\ Exhausted => \A p \in AllPackets : Cardinality(YieldedAt(p)) = 1
    /\ \A l \in 1..Len(yielded) : \A q \in AllPackets :
          yielded[l].packet \in Nodes(ChildrenOf(q)) =>
              \E k \in 1..(l - 1) : yielded[k].packet = q
    /\ \A m \in 1..Len(yielded) : \A q \in AllPackets :
          NextSibling(q, yielded[m].packet) =>
              /\ \E k \in 1..(m - 1) : yielded[k].packet = q
              /\ \A d \in Nodes(ChildrenOf(q)) :
                    \E l \in 1..(m - 1) : yielded[l].packet = d

\* A container with a grandchild and a second child was iterated to the end.
C12_Witness ==
    /\ Exhausted
    /\ Len(pile.packets) = 2
    /\ Len(ChildrenOf(pile.packets[1])) = 2
    /\ Len(ChildrenOf(ChildrenOf(pile.packets[1])[1])) = 1
    /\ Len(yielded) = 5
    /\ yielded[5].packet = pile.packets[2]

\* The helper paths of the test packet_path_iter: a recursive walk that
\* numbers the packets of each container from 0.
RECURSIVE test_paths(_, _)
test_paths(packets, i) ==
    IF i >= Len(packets)
    THEN <<>>
    ELSE <<<<i>>>>
         \o [k \in 1..Len(test_paths(ChildrenOf(packets[i + 1]), 0)) |->
                <<i>> \o test_paths(ChildrenOf(packets[i + 1]), 0)[k]]
         \o test_paths(packets, i + 1)

YieldedPaths == [k \in 1..Len(yielded) |-> yielded[k].path]

\* C13: every (path, packet) yielded by descendants().paths() satisfies
\* path_ref(path) = packet, and the paths yielded are, in order, those of the
\* naive recursive walk: a prefix of them at any time, all of them at the end.
C13_PathsMatchNaiveWalk ==
    /\ \A k \in 1..Len(yielded) :
          path_ref(pile.packets, yielded[k].path) = Some(yielded[k].packet)
    /\ Len(yielded) <= Len(test_paths(pile.packets, 0))
    /\ YieldedPaths = SubSeq(test_paths(pile.packets, 0), 1, Len(yielded))
    /\ Exhausted => YieldedPaths = test_paths(pile.packets, 0)

\* The iteration came back from depth 2 to the top level: the last path is
\* [1] and follows [0, 0, 0].
C13_Witness ==
    /\ Exhausted
    /\ Len(yielded) = 4
    /\ yielded[3].path = <<0, 0, 0>>
    /\ yielded[4].path = <<1>>
    /\ path_ref(pile.packets, <<1>>) = Some(yielded[4].packet)

\* a comes before b in lexicographic order; a proper prefix comes first.
LexLess(a, b) ==
    \E i \in 1..Len(b) :
        /\ i <= Len(a) + 1
        /\ \A j \in 1..(i - 1) : a[j] = b[j]
        /\ i = Len(a) + 1 \/ a[i] < b[i]

\* C14: of two consecutive items of paths(), the later path is greater in
\* lexicographic order, and no path is yielded twice.
C14_PathsIncrease ==
    /\ \A k \in 1..(Len(yielded) - 1) :
          LexLess(yielded[k].path, yielded[k + 1].path)
    /\ \A k, l \in 1..Len(yielded) :
          yielded[k].path = yielded[l].path => k = l

\* A sibling, a descent and a pop have been yielded one after the other.
C14_Witness ==
    /\ Len(yielded) >= 4
    /\ yielded[1].path = <<0>>
    /\ yielded[2].path = <<1>>
    /\ yielded[3].path = <<1, 0>>
    /\ yielded[4].path = <<2>>

\* C15: next returns None once it has been called more often than the tree
\* has packets, and a call after one that returned None returns None.
C15_FiniteAndFused ==
    /\ Len(yielded) + nones > Cardinality(AllPackets) => item = None
    /\ Exhausted => item = None

\* next was called again after it returned None at the end of a tree with
\* nested packets.
C15_Witness ==
    /\ nones = 2
    /\ item = None
    /\ Len(yielded) >= 3
    /\ \E k \in 1..Len(yielded) : Len(yielded[k].path) = 3

\* The depth of a packet in the tree.
DepthOf(p) == Len(p.id) - 1

\* Every container of the sequence holds one packet.
RECURSIVE IsChain(_)
IsChain(packets) ==
    /\ Len(packets) = 1
    /\ ChildrenOf(packets[1]) = <<>> \/ IsChain(ChildrenOf(packets[1]))

\* C19: the first path is [0]; a packet one level below the previous one gets
\* the previous path with 0 pushed, one at the same depth the previous path
\* with the last index incremented, and one above it the previous path
\* truncated to the new depth with its last index incremented.  A chain of k
\* nested containers, each holding one packet, yields k + 1 paths of zeros of
\* the lengths 1 to k + 1.
C19_PathUpdateRules ==
    /\ Len(yielded) >= 1 => yielded[1].path = <<0>>
    /\ \A k \in 1..(Len(yielded) - 1) :
          /\ DepthOf(yielded[k + 1].packet) <= DepthOf(yielded[k].packet) + 1
          /\ DepthOf(yielded[k + 1].packet) = DepthOf(yielded[k].packet) + 1 =>
                yielded[k + 1].path = Append(yielded[k].path, 0)
          /\ DepthOf(yielded[k + 1].packet) = DepthOf(yielded[k].packet) =>
                yielded[k + 1].path =
                    [yielded[k].path EXCEPT ![Len(yielded[k].path)] = @ + 1]
          /\ DepthOf(yielded[k + 1].packet) < DepthOf(yielded[k].packet) =>
                yielded[k + 1].path =
                    [SubSeq(yielded[k].path, 1,
                            DepthOf(yielded[k + 1].packet) + 1)
                        EXCEPT ![DepthOf(yielded[k + 1].packet) + 1] = @ + 1]
    /\ (Exhausted /\ IsChain(pile.packets)) =>
          /\ Len(yielded) = Cardinality(AllPackets)
          /\ \A k \in 1..Len(yielded) : yielded[k].path = [j \in 1..k |-> 0]

\* Four nested compressed data packets around a literal have been iterated.
C19_Witness ==
    /\ Exhausted
    /\ IsChain(pile.packets)
    /\ Cardinality(AllPackets) = 5
    /\ Len(yielded) = 5
    /\ yielded[5].path = <<0, 0, 0, 0, 0>>
    /\ yielded[5].packet.tag = Literal

\* C21: the first packet yielded has depth 0, the depth that PacketIter
\* reports grows by at most one from a packet to the next and is the depth of
\* the packet in the tree; so one of the three branches of
\* PacketPathIter::next applies at every packet after the first, and a
\* yielded path has depth + 1 indices.
C21_DepthGrowsByAtMostOne ==
    /\ Len(yielded) >= 1 => yielded[1].depth = 0
    /\ \A k \in 1..Len(yielded) :
          /\ yielded[k].depth = DepthOf(yielded[k].packet)
          /\ Len(yielded[k].path) = yielded[k].depth + 1
    /\ \A k \in 1..(Len(yielded) - 1) :
          /\ yielded[k + 1].depth <= yielded[k].depth + 1
          /\ \/ Len(yielded[k].path) - 1 > yielded[k + 1].depth
             \/ Len(yielded[k].path) - 1 = yielded[k + 1].depth
             \/ Len(yielded[k].path) = yielded[k + 1].depth

\* The depth went up twice by one and then fell by two.
C21_Witness ==
    /\ Len(yielded) >= 5
    /\ yielded[1].depth = 0
    /\ yielded[2].depth = 1
    /\ yielded[3].depth = 2
    /\ yielded[4].depth = 0
    /\ yielded[5].depth = 1
    /\ Len(yielded[4].path) = 1

(***************************************************************************)
(* Properties of the streaming parser.                                     *)
(***************************************************************************)
AtEOF == pp.state = "AtEOF"

\* C16: with max_recursion_depth = k, every packet the parser yields has a
\* path of at most k + 1 indices; with k = 0 the parser yields top-level
\* packets only.
C16_RecursionDepthCapped ==
    /\ \A i \in 1..Len(stream.items) :
          Len(stream.items[i].path) <= stream.k + 1
    /\ stream.k = 0 =>
          \A i \in 1..Len(stream.items) : Len(stream.items[i].path) = 1
    /\ pp.state = "HeaderParsed" => Len(pp.path) <= stream.k + 1

\* With max_recursion_depth = 1 and the caller recursing throughout, the
\* input was read to its end: a packet at depth 1 was yielded, the packet
\* below it was not.
C16_Witness ==
    /\ AtEOF
    /\ stream.always
    /\ stream.k = 1
    /\ path_ref(message, <<0, 0, 0>>).some
    /\ \E i \in 1..Len(stream.items) : stream.items[i].path = <<0, 0>>
    /\ \A i \in 1..Len(stream.items) : stream.items[i].path # <<0, 0, 0>>

\* The (path, tag) pairs of an iteration with paths(): n is what the first
\* call of next returned and left behind.
RECURSIVE PathsAndTags(_)
PathsAndTags(n) ==
    IF n.item.some
    THEN <<[path |-> n.item.val.path, tag |-> n.item.val.packet.tag]>>
         \o PathsAndTags(PacketPathIter_next(n.iter))
    ELSE <<>>

\* C17: when the caller recursed at every packet and the input is read to
\* its end, the (path, tag) pairs the parser returned are those of
\* descendants().paths() on the PacketPile built from the same input with the
\* same settings (PacketPile::from_bytes where they are the default ones).
C17_StreamingAgreesWithEager ==
    (AtEOF /\ stream.always) =>
        stream.items =
            PathsAndTags(PacketPathIter_next(paths(Container_descendants(
                PacketPile_from(message, pp.settings)))))

\* With the default settings a message was read to its end that goes down
\* two levels and comes back to the top level.
C17_Witness ==
    /\ AtEOF
    /\ stream.always
    /\ stream.k = MAX_RECURSION_DEPTH
    /\ Len(stream.items) = 4
    /\ stream.items[3].path = <<0, 0, 0>>
    /\ stream.items[4] = [path |-> <<1>>, tag |-> Literal]

=============================================================================
